---- MODULE Spec2Model ----
(***************************************************************************)
(* Ray-tracing core of the desert (inferior) and ocean (superior) mirage   *)
(* simulators: atmosphere profiles, the RK4 stepper, the per-ray driver    *)
(* trace_ray of both variants and the two display-fan generators.          *)
(*                                                                         *)
(* Python floats are modelled as fixed-point integers: the integer k       *)
(* stands for the real number k / U.  Lengths, heights, refractive         *)
(* indices, direction components and angles (radians) all use that unit.   *)
(***************************************************************************)
EXTENDS Integers, Sequences, FiniteSets, TLC

\* ------------------------------------------------------------------------
\* Bounds of the model
\* ------------------------------------------------------------------------

\* Fixed-point resolution: one unit of the model is 1/U.
U == 1000

\* Largest step budget (max_steps) a direct call of trace_ray is given.
MaxSteps == 4

\* Largest decimation factor (record_every) a direct call is given.
MaxRecordEvery == 3

\* Largest ray count (n_rays) a fan generator is given.
MaxRays == 3

\* ------------------------------------------------------------------------
\* Fixed-point arithmetic
\* ------------------------------------------------------------------------

Abs(a) == IF a < 0 THEN -a ELSE a

Max(a, b) == IF a >= b THEN a ELSE b

Min(a, b) == IF a <= b THEN a ELSE b

\* Quotient rounded toward zero (symmetric in the sign of the operands).
QDiv(a, b) ==
    IF (a >= 0) = (b > 0) THEN Abs(a) \div Abs(b) ELSE -(Abs(a) \div Abs(b))

\* F applied to the value of v, which is computed once.
With(F(_), v) == CHOOSE r \in {F(x) : x \in {v}} : TRUE

\* Product and quotient of two fixed-point numbers.
FMul(a, b) == QDiv(a * b, U)

FDiv(a, b) == QDiv(a * U, b)

\* The decimal literal  num / den  of the source, in fixed point.
Lit(num, den) == QDiv(num * U, den)

\* Tolerance of the unit magnitude of a direction, in units of 1 / U: the
\* two quotients of _renorm and the square root of hypot each round by less
\* than one unit, which moves the magnitude by less than sqrt(2) + 1.
RenormTol == 2

\* Integer square root by bisection on lo..hi (lo*lo <= n < (hi+1)*(hi+1)).
RECURSIVE SqrtBetween(_, _, _)
SqrtBetween(n, lo, hi) ==
    IF lo >= hi THEN lo
    ELSE LET mid == (lo + hi + 1) \div 2
         IN  IF mid * mid <= n THEN SqrtBetween(n, mid, hi)
                               ELSE SqrtBetween(n, lo, mid - 1)

\* math.hypot on fixed-point components.
Hypot(a, b) == SqrtBetween(a * a + b * b, 0, Abs(a) + Abs(b))

\* math.exp(-t) for t >= 0: exp(-t) = exp(-t/8)^8 with exp(-u) taken as
\* 1 / (1 + u + u^2/2 + u^3/6); arguments of 16 and more give 0.
ExpNeg(t) ==
    IF t >= 16 * U THEN 0
    ELSE LET u  == t \div 8
             u2 == FMul(u, u)
             e1 == FDiv(U, U + u + (u2 \div 2) + (FMul(u2, u) \div 6))
             e2 == FMul(e1, e1)
             e4 == FMul(e2, e2)
         IN  FMul(e4, e4)

Pi == Lit(31416, 10000)

\* math.sin: reduction of the argument to [-pi/2, pi/2], then the Taylor
\* polynomial of degree 7.
SinPoly(t) ==
    LET t2 == FMul(t, t)
        t3 == FMul(t2, t)
        t5 == FMul(t3, t2)
        t7 == FMul(t5, t2)
    IN  t - QDiv(t3, 6) + QDiv(t5, 120) - QDiv(t7, 5040)

RECURSIVE Sin(_)
Sin(t) ==
    IF t > Pi THEN Sin(t - 2 * Pi)
    ELSE IF t < -Pi THEN Sin(t + 2 * Pi)
    ELSE IF t > Pi \div 2 THEN SinPoly(Pi - t)
    ELSE IF t < -(Pi \div 2) THEN SinPoly(-Pi - t)
    ELSE SinPoly(t)

Cos(t) == Sin(t + (Pi \div 2))

\* math.atan on [-1, 1]:  z*pi/4 + 0.273*z*(1 - |z|).
AtanUnit(z) == FMul(z, Pi \div 4) + FMul(FMul(Lit(273, 1000), z), U - Abs(z))

\* math.atan2(dy, dx).
Atan2(dy, dx) ==
    IF dx = 0 /\ dy = 0 THEN 0
    ELSE IF Abs(dy) <= Abs(dx)
         THEN LET a == AtanUnit(FDiv(dy, dx))
              IN  IF dx > 0 THEN a
                  ELSE IF dy >= 0 THEN a + Pi ELSE a - Pi
         ELSE LET a == AtanUnit(FDiv(dx, dy))
              IN  IF dy > 0 THEN (Pi \div 2) - a ELSE -(Pi \div 2) - a

\* ------------------------------------------------------------------------
\* Atmosphere models (physics.py of each variant)
\* ------------------------------------------------------------------------

\* Mutant: the index is evaluated at the height as given.
DesertNUnclamped(atm, y) ==
    atm.n_base - FMul(atm.delta_n, ExpNeg(FDiv(y, atm.scale_height)))

\* DesertAtmosphere.n
DesertN(atm, y) ==
    LET y_c == Max(y, 0)
    IN  atm.n_base - FMul(atm.delta_n, ExpNeg(FDiv(y_c, atm.scale_height)))

\* DesertAtmosphere.dn_dy
DesertDnDy(atm, y) ==
    LET y_c == Max(y, 0)
    IN  FMul(FDiv(atm.delta_n, atm.scale_height),
             ExpNeg(FDiv(y_c, atm.scale_height)))

\* OceanAtmosphere.n
OceanN(atm, y) ==
    LET y_c == Max(y, 0)
    IN  IF ~atm.ducting_enabled
        THEN atm.n_base
             - FMul(Lit(3, 100000), U - ExpNeg(QDiv(y_c, 8000)))
        ELSE atm.n_base
             + FMul(atm.a, ExpNeg(FDiv(y_c, atm.h1)))
             - FMul(atm.b, ExpNeg(FDiv(y_c, atm.h2)))

\* OceanAtmosphere.dn_dy
OceanDnDy(atm, y) ==
    LET y_c == Max(y, 0)
    IN  IF ~atm.ducting_enabled
        THEN FMul(QDiv(-Lit(3, 100000), 8000), ExpNeg(QDiv(y_c, 8000)))
        ELSE -FMul(FDiv(atm.a, atm.h1), ExpNeg(FDiv(y_c, atm.h1)))
             + FMul(FDiv(atm.b, atm.h2), ExpNeg(FDiv(y_c, atm.h2)))

\* math.log(r) for r > 0:  r = m * 2^k with m in [1, 2), and
\* ln(m) = 2 * (z + z^3/3 + z^5/5) with z = (m - 1) / (m + 1).
Ln2 == Lit(6931, 10000)

RECURSIVE Ln(_)
Ln(r) ==
    IF r >= 2 * U THEN Ln2 + Ln(r \div 2)
    ELSE IF r < U THEN Ln(2 * r) - Ln2
    ELSE LET z  == FDiv(r - U, r + U)
             z2 == FMul(z, z)
             z3 == FMul(z2, z)
         IN  2 * (z + QDiv(z3, 3) + QDiv(FMul(z3, z2), 5))

\* The outcome of a call: a returned value or an exception that escapes.
Returned(v) == [exc |-> "none", value |-> v]

Raised(e) == [exc |-> e, value |-> 0]

\* b * h1 + 1e-30.  A float sum keeps the 1e-30 only where b * h1 is of that
\* size itself, so b is held in two parts: atm.b in units of 1/U and
\* atm.b_tiny in units of 1e-30.  Where b * h1 is not 0 at the scale of 1/U
\* the sum is b * h1; elsewhere it is (b_tiny * h1 + 1) * 1e-30, which
\* DuctTiny gives in units of 1e-30 / U.
DuctTiny(atm) == atm.b_tiny * atm.h1 + U

DuctDenIsTiny(atm) == atm.b * atm.h1 = 0

\* math.log(ratio) for ratio > 0, ratio = (a * h2) / (b * h1 + 1e-30); with
\* a denominator of the size of 1e-30 it is ln(a * h2) + 30 ln 10 - ln(tiny).
DuctLogRatio(atm) ==
    IF DuctDenIsTiny(atm)
    THEN Ln(Abs(FMul(atm.a, atm.h2))) + Lit(69078, 1000)
         - Ln(Abs(DuctTiny(atm)))
    ELSE Ln(QDiv(atm.a * atm.h2 * U, atm.b * atm.h1))

\* The sign of ratio: -1, 0 or 1.
DuctRatioSign(atm) ==
    LET num == atm.a * atm.h2
        den == IF DuctDenIsTiny(atm) THEN DuctTiny(atm) ELSE atm.b * atm.h1
    IN  IF num = 0 THEN 0 ELSE IF (num > 0) = (den > 0) THEN 1 ELSE -1

\* OceanAtmosphere.duct_height; abs(dh) < 1e-6 is dh = 0 at the scale of 1/U.
duct_height(atm) ==
    IF ~atm.ducting_enabled THEN Returned(-U)
    ELSE IF DuctDenIsTiny(atm) /\ DuctTiny(atm) = 0
    THEN Raised("ZeroDivisionError")
    ELSE IF DuctRatioSign(atm) <= 0 THEN Returned(-U)
    ELSE LET dh == atm.h2 - atm.h1
         IN  IF Abs(dh) < 1 THEN Returned(-U)
             ELSE LET y_star == FMul(FDiv(FMul(atm.h1, atm.h2), dh),
                                     DuctLogRatio(atm))
                  IN  IF y_star > 0 THEN Returned(y_star) ELSE Returned(-U)

AtmN(variant, atm, y) ==
    IF variant = "desert" THEN DesertN(atm, y) ELSE OceanN(atm, y)

AtmDnDy(variant, atm, y) ==
    IF variant = "desert" THEN DesertDnDy(atm, y) ELSE OceanDnDy(atm, y)

\* ray_ode: the ray-curvature equation; state = <<x, y, vx, vy>>.  The desert
\* variant also takes a phase argument, which it never reads.
Derivative(vx, vy, n_val, dndy) ==
    <<vx, vy,
      -FMul(FDiv(FMul(vy, vx), n_val), dndy),
      FMul(FDiv(FMul(vx, vx), n_val), dndy)>>

ray_ode(variant, s, state, atm) ==
    With(LAMBDA st :
           With(LAMBDA n_val :
                  With(LAMBDA dndy : Derivative(st[3], st[4], n_val, dndy),
                       AtmDnDy(variant, atm, st[2])),
                AtmN(variant, atm, st[2])),
         state)

\* ------------------------------------------------------------------------
\* RK4 stepper and renormalisation (integrator.py of each variant)
\* ------------------------------------------------------------------------

\* [si + c * ki for si, ki in zip(state, k)]
Axpy(state, c, k) == [i \in 1..4 |-> state[i] + FMul(c, k[i])]

\* si + (ds / 6.0) * (k1i + 2 * k2i + 2 * k3i + k4i)
Rk4Sum(state, ds, k1, k2, k3, k4) ==
    [i \in 1..4 |->
        state[i] + FMul(QDiv(ds, 6), k1[i] + 2 * k2[i] + 2 * k3[i] + k4[i])]

rk4_step(variant, s, state, ds, atm) ==
    LET half == QDiv(ds, 2)
        K2(k1) == ray_ode(variant, s + half, Axpy(state, half, k1), atm)
        K3(k2) == ray_ode(variant, s + half, Axpy(state, half, k2), atm)
        K4(k3) == ray_ode(variant, s + ds, Axpy(state, ds, k3), atm)
    IN  With(LAMBDA k1 :
          With(LAMBDA k2 :
            With(LAMBDA k3 :
              With(LAMBDA k4 : Rk4Sum(state, ds, k1, k2, k3, k4), K4(k3)),
              K3(k2)),
            K2(k1)),
          ray_ode(variant, s, state, atm))

\* Mutant: the state is returned as the RK4 step left it, whatever the
\* magnitude of its velocity.
ScaledNever(st, mag) == st

\* _renorm: a magnitude below 1e-15 is below one unit of the model (it is 0).
Scaled(st, mag) ==
    IF mag < 1
    THEN st
    ELSE <<st[1], st[2], FDiv(st[3], mag), FDiv(st[4], mag)>>

renorm(state) ==
    With(LAMBDA st : With(LAMBDA mag : Scaled(st, mag), Hypot(st[3], st[4])),
         state)

\* ------------------------------------------------------------------------
\* trace_ray: the per-ray driver
\* ------------------------------------------------------------------------

\* The locals of trace_ray on entry to the loop.  `ended` is the place where
\* control left the loop ("running" while it has not); `exc` is the exception
\* that escaped, if any.
DesertLocals(a) ==
    [state   |-> <<a.x0, a.y0, Cos(a.theta0), Sin(a.theta0)>>,
     points  |-> <<<<a.x0, a.y0>>>>,
     has_tp  |-> FALSE,
     tp_y    |-> 0,
     prev_vy |-> Sin(a.theta0),
     s       |-> 0,
     step_i  |-> 0,
     ended   |-> "running",
     exc     |-> "none"]

OceanLocals(a) ==
    [state        |-> <<a.x0, a.y0, Cos(a.theta0), Sin(a.theta0)>>,
     points       |-> <<<<a.x0, a.y0>>>>,
     prev_vy      |-> Sin(a.theta0),
     oscillations |-> 0,
     min_y        |-> a.y0,
     max_y        |-> a.y0,
     s            |-> 0,
     step_i       |-> 0,
     ended        |-> "running",
     exc          |-> "none"]

InitLocals(variant, a) ==
    IF variant = "desert" THEN DesertLocals(a) ELSE OceanLocals(a)

\* Mutant: every step is recorded, whatever the decimation factor.
DecimatedAlways(step_i, record_every) == TRUE

\* step_i % record_every == 0; a zero divisor raises ZeroDivisionError.
Decimated(step_i, record_every) == step_i % Abs(record_every) = 0

\* Mutant: the ratio y / (1.5 * scale_height) is used without the floor 0.12.
LocalDsNoFloor(atm, y_cur, ds) ==
    IF y_cur < FMul(atm.scale_height, Lit(15, 10))
    THEN FMul(ds, FDiv(y_cur, FMul(atm.scale_height, Lit(15, 10))))
    ELSE ds

\* Adaptive step near the ground (desert only).
LocalDs(atm, y_cur, ds) ==
    IF y_cur < FMul(atm.scale_height, Lit(15, 10))
    THEN FMul(ds, Max(Lit(12, 100),
                      FDiv(y_cur, FMul(atm.scale_height, Lit(15, 10)))))
    ELSE ds

\* Mutant: the floor resets the height and leaves the velocity as it is.
GroundClampKeepsVy(st, dom) ==
    IF st[2] < dom.y_min
    THEN <<st[1], dom.y_min + Lit(1, 1000), st[3], st[4]>>
    ELSE st

\* Mutant: the desert driver has no floor.
GroundClampNone(st, dom) == st

\* y_min + 0.001 and abs(vy): the reflective floor of the desert driver.
GroundClamp(st, dom) ==
    IF st[2] < dom.y_min
    THEN <<st[1], dom.y_min + Lit(1, 1000), st[3], Abs(st[4])>>
    ELSE st

\* x < x_min or x > x_max or y > y_max
LeftDomain(x, y, dom) == x < dom.x_min \/ x > dom.x_max \/ y > dom.y_max

ExitKind(x, dom) == IF x < dom.x_min \/ x > dom.x_max THEN "side" ELSE "top"

\* The step size of the next iteration: adaptive in the desert driver, the
\* nominal ds in the ocean driver.
StepSize(variant, l, atm, a) ==
    IF variant = "desert" THEN LocalDs(atm, l.state[2], a.ds) ELSE a.ds

\* Mutant: ray_ode reads the phase it is passed: the shimmer lifts the ray by
\* the phase on every step.
IntegrateShimmer(variant, l, atm, a) ==
    With(LAMBDA st : <<st[1], st[2] + a.phase, st[3], st[4]>>,
         renorm(rk4_step(variant, l.s, l.state, StepSize(variant, l, atm, a),
                         atm)))

\* state = _renorm(rk4_step(ray_ode, s, state, local_ds, atm, phase)): the
\* desert driver hands its phase argument (a.phase) to rk4_step, which hands
\* it to ray_ode, which does not read it.
Integrate(variant, l, atm, a) ==
    renorm(rk4_step(variant, l.s, l.state, StepSize(variant, l, atm, a), atm))

\* Mutant: every sign change is taken as a turning point, also after the first.
TurnDetectedAgain(prev_vy, vy, has_tp) == prev_vy * vy < 0

\* prev_vy * vy < 0 and not has_tp
TurnDetected(prev_vy, vy, has_tp) == prev_vy * vy < 0 /\ ~has_tp

\* The desert loop body after the integration: st1 is the renormalised
\* state, local_ds the step that was taken.
DesertAfter(l, st1, local_ds, a, dom) ==
    LET vy  == st1[4]
        turn == TurnDetected(l.prev_vy, vy, l.has_tp)
        st2 == GroundClamp(st1, dom)
        x   == st2[1]
        y   == st2[2]
        l1  == [l EXCEPT !.state = st2,
                         !.s = l.s + local_ds,
                         !.has_tp = l.has_tp \/ turn,
                         !.tp_y = IF turn THEN st1[2] ELSE l.tp_y,
                         !.prev_vy = vy,
                         !.step_i = l.step_i + 1]
    IN  IF LeftDomain(x, y, dom)
        THEN [l1 EXCEPT !.points = Append(l.points, <<x, y>>),
                        !.ended = ExitKind(x, dom)]
        ELSE IF a.record_every = 0
        THEN [l1 EXCEPT !.exc = "ZeroDivisionError"]
        ELSE IF Decimated(l.step_i, a.record_every)
        THEN [l1 EXCEPT !.points = Append(l.points, <<x, y>>)]
        ELSE l1

\* One iteration of the desert loop body.
DesertIter(l, atm, a, dom) ==
    With(LAMBDA st1 :
           DesertAfter(l, st1, StepSize("desert", l, atm, a), a, dom),
         Integrate("desert", l, atm, a))

\* Mutant: the surface exit records the height as integrated.
SurfacePointRaw(x, y) == <<x, y>>

\* (x, max(y, 0.0)): the point recorded for a step that ended below y_min.
SurfacePoint(x, y) == <<x, Max(y, 0)>>

\* The ocean loop body after the integration.
OceanAfter(l, st1, a, dom) ==
    LET x   == st1[1]
        y   == st1[2]
        vy  == st1[4]
        l1  == [l EXCEPT !.state = st1,
                         !.s = l.s + a.ds,
                         !.min_y = Min(l.min_y, y),
                         !.max_y = Max(l.max_y, y),
                         !.oscillations =
                             IF l.prev_vy * vy < 0 THEN l.oscillations + 1
                                                   ELSE l.oscillations,
                         !.prev_vy = vy,
                         !.step_i = l.step_i + 1]
    IN  IF y < dom.y_min
        THEN [l1 EXCEPT !.points = Append(l.points, SurfacePoint(x, y)),
                        !.ended = "surface"]
        ELSE IF LeftDomain(x, y, dom)
        THEN [l1 EXCEPT !.points = Append(l.points, <<x, y>>),
                        !.ended = ExitKind(x, dom)]
        ELSE IF a.record_every = 0
        THEN [l1 EXCEPT !.exc = "ZeroDivisionError"]
        ELSE IF Decimated(l.step_i, a.record_every)
        THEN [l1 EXCEPT !.points = Append(l.points, <<x, y>>)]
        ELSE l1

\* One iteration of the ocean loop body.
OceanIter(l, atm, a, dom) ==
    With(LAMBDA st1 : OceanAfter(l, st1, a, dom), Integrate("ocean", l, atm, a))

LoopBody(variant, l, atm, a, dom) ==
    IF variant = "desert" THEN DesertIter(l, atm, a, dom)
                          ELSE OceanIter(l, atm, a, dom)

\* Mutant: the budget counts the points recorded, not the steps taken.
LoopRunsWhileFewPoints(l, a) ==
    l.ended = "running" /\ l.exc = "none" /\ Len(l.points) <= a.max_steps

\* Mutant: the loop has no step budget (while True).
LoopRunsNoBudget(l, a) == l.ended = "running" /\ l.exc = "none"

\* for step_i in range(max_steps): the loop goes on while the range is not
\* used up and no break (or exception) has left it.
LoopRuns(l, a) ==
    l.ended = "running" /\ l.exc = "none" /\ l.step_i < a.max_steps

\* The RayResult built by the return statement.
DesertResult(l) ==
    [points            |-> l.points,
     has_turning_point |-> l.has_tp,
     turning_y         |-> l.tp_y,
     final_y           |-> l.state[2]]

\* Mutant: one of the two conditions is enough for a ray to count as trapped.
OceanResultEither(l) ==
    [points       |-> l.points,
     is_trapped   |-> (l.oscillations >= 2 \/ l.min_y > Lit(5, 10)),
     oscillations |-> l.oscillations,
     min_y        |-> l.min_y,
     max_y        |-> l.max_y,
     final_y      |-> l.state[2]]

\* Mutant: a ray is trapped when it oscillated, whatever its least height.
OceanResultOscillating(l) ==
    [points       |-> l.points,
     is_trapped   |-> l.oscillations >= 2,
     oscillations |-> l.oscillations,
     min_y        |-> l.min_y,
     max_y        |-> l.max_y,
     final_y      |-> l.state[2]]

OceanResult(l) ==
    [points       |-> l.points,
     is_trapped   |-> (l.oscillations >= 2 /\ l.min_y > Lit(5, 10)),
     oscillations |-> l.oscillations,
     min_y        |-> l.min_y,
     max_y        |-> l.max_y,
     final_y      |-> l.state[2]]

RayResult(variant, l) ==
    IF variant = "desert" THEN DesertResult(l) ELSE OceanResult(l)

\* trace_ray as a whole: the loop run to its end.
RECURSIVE RunLoop(_, _, _, _, _)
RunLoop(variant, l, atm, a, dom) ==
    IF LoopRuns(l, a)
    THEN With(LAMBDA l2 : RunLoop(variant, l2, atm, a, dom),
              LoopBody(variant, l, atm, a, dom))
    ELSE l

trace_ray(variant, atm, a, dom) ==
    RayResult(variant, RunLoop(variant, InitLocals(variant, a), atm, a, dom))

\* ------------------------------------------------------------------------
\* Inputs
\* ------------------------------------------------------------------------

DesertAtm(d, h) == [n_base |-> U, delta_n |-> d, scale_height |-> h]

OceanAtm(nb, a, b, h1, h2, duct) ==
    [n_base |-> nb, a |-> a, b |-> b, h1 |-> h1, h2 |-> h2,
     ducting_enabled |-> duct]

Bounds(x_min, x_max, y_min, y_max) ==
    [x_min |-> x_min, x_max |-> x_max, y_min |-> y_min, y_max |-> y_max]

Launch(x0, y0, theta0, ds) ==
    [x0 |-> x0, y0 |-> y0, theta0 |-> theta0, ds |-> ds]

\* Atmospheres with gradients strong enough to bend a ray within a few steps.
\* The desert one with a negative delta_n bends rays toward the ground.
DesertAtms ==
    {DesertAtm(U \div 2, 2 * U), DesertAtm((3 * U) \div 10, U \div 2),
     DesertAtm(-U, U \div 2)}

OceanAtms ==
    {OceanAtm((4 * U) \div 10, -((6 * U) \div 10), -((85 * U) \div 100),
              U \div 2, 2 * U, TRUE),
     OceanAtm((4 * U) \div 10, -((6 * U) \div 10), -((12 * U) \div 10),
              U \div 2, 2 * U, TRUE),
     OceanAtm(U, (3 * U) \div 10, U \div 10, U, 4 * U, TRUE),
     OceanAtm(U, (3 * U) \div 10, U \div 10, U, 4 * U, FALSE)}

DesertDomains == {Bounds(0, 4 * U, 0, 3 * U), Bounds(0, 3 * U, 0, 3 * U)}

OceanDomains == {Bounds(0, 8 * U, 0, 4 * U), Bounds(0, 8 * U, U \div 2, 4 * U)}

DesertLaunches ==
    {Launch(2 * U, U \div 2, -((8 * U) \div 10), 2 * U),
     Launch(2 * U, U \div 2, -((3 * U) \div 10), 2 * U),
     Launch(2 * U, 2 * U, U \div 2, 2 * U),
     Launch(2 * U, U \div 2, Pi, 2 * U),
     Launch(2 * U, U \div 5, U, -U),
     Launch(2 * U, U \div 5, -(U \div 2), 2 * U),
     Launch(2 * U, 2 * U, -(Pi \div 2), 2 * U)}

OceanLaunches ==
    {Launch(U, U, -((3 * U) \div 10), 2 * U),
     Launch(U, 2 * U, (3 * U) \div 10, 2 * U),
     Launch(U, U, -(U \div 2), U),
     Launch(U, 2 * U, U \div 2, 2 * U)}

Variants == {"desert", "ocean"}

AtmsOf(v) == IF v = "desert" THEN DesertAtms ELSE OceanAtms

DomainsOf(v) == IF v = "desert" THEN DesertDomains ELSE OceanDomains

LaunchesOf(v) == IF v = "desert" THEN DesertLaunches ELSE OceanLaunches

\* The arguments of one call of trace_ray.
CallArgs(launch, max_steps, record_every) ==
    [x0 |-> launch.x0, y0 |-> launch.y0, theta0 |-> launch.theta0,
     ds |-> launch.ds, max_steps |-> max_steps, record_every |-> record_every]

\* The value of a variable that holds nothing yet (Python's None).
None == [none |-> TRUE]

\* ------------------------------------------------------------------------
\* Display-fan generators
\* ------------------------------------------------------------------------

\* Defaults of the keyword arguments the fan generators leave out or pass.
DesertDefaultMaxSteps == 12000

OceanDefaultMaxSteps == 15000

DesertFanRecordEvery == 8

OceanFanRecordEvery == 30

\* DomainBounds() of the desert integrator, used when domain is None.
DesertDefaultDomain == Bounds(0, 3000 * U, 0, 200 * U)

\* The domain trace_display_rays_ocean builds from the scene.
OceanFanDomain(sc) ==
    Bounds(0, FMul(Max(sc.obj_x, sc.observer_x), Lit(12, 10)) + 1000 * U,
           0, 300 * U)

FanDomain(variant, sc) ==
    IF variant = "desert"
    THEN (IF sc.domain = None THEN DesertDefaultDomain ELSE sc.domain)
    ELSE OceanFanDomain(sc)

\* The phase argument of trace_display_rays: 0.0 when the caller leaves it out.
ScenePhase(sc) == IF "phase" \in DOMAIN sc THEN sc.phase ELSE 0

\* Mutant: t = i / max(1, n_rays - 1) also for a single ray.
FanTNoMidpoint(i, n_rays) == QDiv(i * U, Max(1, n_rays - 1))

\* t = i / max(1, n_rays - 1) if n_rays > 1 else 0.5
FanT(i, n_rays) ==
    IF n_rays > 1 THEN QDiv(i * U, Max(1, n_rays - 1)) ELSE Lit(5, 10)

\* The arguments of the i-th call (i from 0) of trace_ray by
\* trace_display_rays.
DesertFanArgs(sc, i) ==
    LET t          == FanT(i, sc.n_rays)
        src_y      == Lit(3, 10) + FMul(t, sc.obj_height - Lit(3, 10))
        dx         == sc.observer_x - sc.obj_x
        dy         == sc.observer_y - src_y
        base_angle == Atan2(dy, dx)
        spread     == FMul(Lit(12, 1000), t - Lit(5, 10))
    IN  [x0 |-> sc.obj_x, y0 |-> src_y, theta0 |-> base_angle + spread,
         ds |-> sc.ds, max_steps |-> DesertDefaultMaxSteps,
         record_every |-> DesertFanRecordEvery, phase |-> ScenePhase(sc)]

\* np.linspace(start, stop, num)[i]
Linspace(start, stop, num, i) ==
    IF num > 1 /\ i = num - 1 THEN stop
    ELSE start + i * QDiv(stop - start, Max(1, num - 1))

\* Mutant: the ocean fan is centred on the line from the source to the
\* observer, as the desert fan is.
OceanFanArgsAimed(sc, i) ==
    [x0 |-> sc.obj_x, y0 |-> FMul(sc.obj_height, Lit(8, 10)),
     theta0 |-> Linspace(-Lit(4, 1000), Lit(10, 1000), sc.n_rays, i)
                  + QDiv(sc.observer_y - FMul(sc.obj_height, Lit(8, 10)), 1000),
     ds |-> sc.ds, max_steps |-> OceanDefaultMaxSteps,
     record_every |-> OceanFanRecordEvery]

\* The arguments of the i-th call (i from 0) of trace_ray by
\* trace_display_rays_ocean.
OceanFanArgs(sc, i) ==
    [x0 |-> sc.obj_x, y0 |-> FMul(sc.obj_height, Lit(8, 10)),
     theta0 |-> Linspace(-Lit(4, 1000), Lit(10, 1000), sc.n_rays, i),
     ds |-> sc.ds, max_steps |-> OceanDefaultMaxSteps,
     record_every |-> OceanFanRecordEvery]

FanArgs(variant, sc, i) ==
    IF variant = "desert" THEN DesertFanArgs(sc, i) ELSE OceanFanArgs(sc, i)

\* Mutant: one result object is reused for every ray, so that the list holds
\* the latest result at every index.
FanAppendShared(rs, ray) == [i \in 1..(Len(rs) + 1) |-> ray]

\* rays.append(ray)
FanAppend(rs, ray) == Append(rs, ray)

\* Mutant: the loop stops one launch early.
FanRunsShort(i, sc) == i < sc.n_rays - 1

\* for i in range(n_rays) / for theta in angles
FanRuns(i, sc) == i < sc.n_rays

Scene(obj_x, obj_height, observer_x, observer_y, n_rays, ds, dom) ==
    [obj_x |-> obj_x, obj_height |-> obj_height, observer_x |-> observer_x,
     observer_y |-> observer_y, n_rays |-> n_rays, ds |-> ds, domain |-> dom]


\* Scenes and atmospheres of the fan generators: weak gradients and long
\* steps, so that every ray of a fan leaves the domain within a few steps.
DesertFanAtms == DesertAtms

OceanFanAtms ==
    {OceanAtm(U, (3 * U) \div 1000, U \div 1000, U, 4 * U, TRUE),
     OceanAtm(U, (3 * U) \div 10, U \div 10, U, 4 * U, FALSE)}

FanAtmsOf(v) == IF v = "desert" THEN DesertFanAtms ELSE OceanFanAtms

DesertScenes ==
    {Scene(2 * U, h, 0, U \div 2, n, 2 * U, dom) :
        h \in {U, 2 * U}, n \in 0..MaxRays,
        dom \in {None, Bounds(0, 4 * U, 0, 3 * U)}}

OceanScenes ==
    {Scene(ox, h, 0, 10 * U, n, 400 * U, None) :
        ox \in {0, 100 * U}, h \in {U, 40 * U}, n \in 0..MaxRays}

ScenesOf(v) == IF v = "desert" THEN DesertScenes ELSE OceanScenes

\* Heights at which the index functions are called on their own: quarters
\* of a unit length from -ProbeSpan / 4 to ProbeSpan / 4.
ProbeSpan == 12

ProbeHeights == {QDiv(k * U, 4) : k \in (-ProbeSpan)..ProbeSpan}

ProbeAtmsOf(v) == AtmsOf(v) \cup FanAtmsOf(v)

\* Atmospheres on which duct_height is called: a, b of either sign and 0,
\* b of the size of 1e-30 (b_tiny, with b = 0), equal and different h1, h2.
DuctAtms ==
    {[n_base |-> U, a |-> a, b |-> b, b_tiny |-> bt, h1 |-> h1, h2 |-> h2,
      ducting_enabled |-> duct] :
        a \in {-((3 * U) \div 10), 0, (3 * U) \div 10},
        b \in {-(U \div 10), 0, U \div 10},
        bt \in {-2, -1, 0, 1},
        h1 \in {U \div 2, U, 4 * U},
        h2 \in {U, 4 * U},
        duct \in BOOLEAN}

\* ------------------------------------------------------------------------
\* The windows (ui.py of each variant)
\* ------------------------------------------------------------------------

\* A window is a record of the attributes of DesertMirageWindow or
\* OceanMirageWindow.  A parameter set by a slider is held as the position of
\* that slider, value * scale (delta_n, a, b in millionths; the scale heights
\* and the observer height in tenths); the ocean distance is held in metres.
\* The list a fan generator returns is a function of its arguments alone, and
\* the window holds it as the call that made it.  Three fields are history:
\* touched (a callback has written an input of the trace since the fan
\* generator was last invoked), justified (every invocation by a tick so far
\* found touched set) and ncalls, events (invocations and callbacks so far);
\* two more record what the renderer and the exception handler of _tick saw:
\* drawn (the rays the latest call of render received, with the call of the
\* fan generator the attributes of the window stood for at that moment, and
\* the number of render calls so far) and failed_at (the number of the latest
\* event that was a dirty tick in which _recompute or _render raised).

\* Largest number of callbacks and timer ticks in a run of a window.
MaxEvents == 4

\* self._cached_rays = trace_display_rays(self.atm, obj_x=self.obj_dist, ...,
\* ds=1.0, phase=0.0)
DesertRecompute(w) ==
    [fn |-> "trace_display_rays", atm |-> w.atm, obj_x |-> w.obj_dist,
     obj_height |-> w.obj_height, observer_x |-> 0,
     observer_y |-> w.obs_height, n_rays |-> w.n_rays, ds |-> 1, phase |-> 0]

\* self._cached_rays = trace_display_rays_ocean(self.atm, ..., ds=10.0)
OceanRecompute(w) ==
    [fn |-> "trace_display_rays_ocean", atm |-> w.atm, obj_x |-> w.obj_dist,
     obj_height |-> w.obj_height, observer_x |-> 0,
     observer_y |-> w.obs_height, n_rays |-> w.n_rays, ds |-> 10]

Recompute(v, w) ==
    IF v = "desert" THEN DesertRecompute(w) ELSE OceanRecompute(w)

\* __init__ up to the construction of the controls.
DesertFields ==
    [atm |-> [n_base |-> 1000293, delta_n |-> 240, scale_height |-> 30,
              ground_temp |-> 65, air_temp |-> 28],
     phase |-> 0, dirty |-> TRUE,
     obj_dist |-> 1800, obj_height |-> 35, obs_height |-> 40, n_rays |-> 12,
     show_rays |-> TRUE, show_shimmer |-> TRUE, cached_rays |-> <<>>,
     touched |-> FALSE, justified |-> TRUE, ncalls |-> 0, events |-> 0,
     drawn |-> [rays |-> <<>>, params |-> <<>>, count |-> 0], failed_at |-> 0]

OceanFields ==
    [atm |-> [n_base |-> 1000293, a |-> 120, b |-> 40, h1 |-> 120,
              h2 |-> 400, sea_temp |-> 10, air_temp |-> 25,
              ducting_enabled |-> TRUE],
     dirty |-> TRUE,
     obj_dist |-> 15000, obj_height |-> 25, obs_height |-> 150, n_rays |-> 10,
     show_rays |-> TRUE, show_ducting |-> TRUE, cached_rays |-> <<>>,
     touched |-> FALSE, justified |-> TRUE, ncalls |-> 0, events |-> 0,
     drawn |-> [rays |-> <<>>, params |-> <<>>, count |-> 0], failed_at |-> 0]

\* _render: self.renderer.render(atm=self.atm, rays=self._cached_rays, ...).
Rendered(v, w) ==
    [w EXCEPT !.drawn = [rays |-> w.cached_rays, params |-> Recompute(v, w),
                         count |-> @.count + 1]]

\* The window after __init__, whose last statements are self._recompute()
\* and self._render().
Constructed(v) ==
    LET w == IF v = "desert" THEN DesertFields ELSE OceanFields
    IN  Rendered(v, [w EXCEPT !.cached_rays = Recompute(v, w), !.ncalls = 1])

\* The attribute names a slider of the atmosphere section writes through a
\* setter that marks the window dirty, with two positions of each slider.
AtmSliders(v) ==
    IF v = "desert"
    THEN {<<"delta_n", 240>>, <<"delta_n", 300>>,
          <<"scale_height", 30>>, <<"scale_height", 50>>}
    ELSE {<<"a", 120>>, <<"a", 150>>, <<"b", 40>>, <<"b", 50>>,
          <<"h1", 120>>, <<"h1", 130>>, <<"h2", 400>>, <<"h2", 410>>}

\* The temperature sliders of the desert window: setattr and nothing else.
TempSliders ==
    {<<"ground_temp", 65>>, <<"ground_temp", 70>>,
     <<"air_temp", 28>>, <<"air_temp", 30>>}

\* The sliders of the scene section and the ray count.  The ocean distance
\* slider is in km: self.obj_dist = v * 1000.0.
SceneSliders(v) ==
    IF v = "desert"
    THEN {<<"obj_dist", 1800>>, <<"obj_dist", 2000>>,
          <<"obj_height", 35>>, <<"obj_height", 40>>,
          <<"obs_height", 40>>, <<"obs_height", 45>>,
          <<"n_rays", 12>>, <<"n_rays", 13>>}
    ELSE {<<"obj_dist", 15 * 1000>>, <<"obj_dist", 16 * 1000>>,
          <<"obj_height", 25>>, <<"obj_height", 26>>,
          <<"obs_height", 150>>, <<"obs_height", 160>>,
          <<"n_rays", 10>>, <<"n_rays", 11>>}

\* A callback or a tick of the timer is delivered to the window.
Delivered(w) == [w EXCEPT !.events = @ + 1]

\* _set_delta_n, _set_scale_height / _set_a, _set_b, _set_h1, _set_h2
SetAtm(w, name, v) ==
    [w EXCEPT !.atm[name] = v, !.dirty = TRUE, !.touched = TRUE]

\* lambda v: setattr(self.atm, 'ground_temp', v), and for air_temp
SetTemp(w, name, v) == [w EXCEPT !.atm[name] = v]

\* Mutant: a scene setter stores the value and does not mark the window dirty.
SetSceneFieldQuiet(w, name, v) == [w EXCEPT ![name] = v, !.touched = TRUE]

\* _set_obj_dist / _set_dist_km, _set_obj_height, _set_obs_height, _set_n_rays
SetSceneField(w, name, v) ==
    [w EXCEPT ![name] = v, !.dirty = TRUE, !.touched = TRUE]

\* lambda c: (setattr(self, 'show_rays', c), self._mark_dirty())
SetShowRays(w, c) == [w EXCEPT !.show_rays = c, !.dirty = TRUE]

\* _toggle_shimmer
SetShimmer(w, checked) == [w EXCEPT !.show_shimmer = checked, !.dirty = TRUE]

\* _toggle_ducting
SetDucting(w, checked) ==
    [w EXCEPT !.show_ducting = checked, !.atm.ducting_enabled = checked,
              !.dirty = TRUE, !.touched = TRUE]

\* self._recompute() in the dirty branch of _tick, when it returns.
Retrace(v, w) ==
    [w EXCEPT !.cached_rays = Recompute(v, w),
              !.ncalls = @ + 1,
              !.justified = @ /\ w.touched,
              !.touched = FALSE]

\* self._dirty = False
Cleared(w) == [w EXCEPT !.dirty = FALSE]

\* except Exception: traceback.print_exc(), in a tick that found _dirty set.
Caught(w, left) == [left EXCEPT !.failed_at = w.events + 1]

\* What a tick may meet: _recompute raises, _render raises, or neither.
Failures == {"none", "recompute", "render"}

\* DesertMirageWindow._tick: _recompute, _dirty = False, _render in the
\* dirty branch; the phase advance and _render in the shimmer branch.
DesertTick(w, fail) ==
    IF w.dirty
    THEN IF fail = "recompute" THEN Caught(w, w)
         ELSE IF fail = "render" THEN Caught(w, Cleared(Retrace("desert", w)))
         ELSE Rendered("desert", Cleared(Retrace("desert", w)))
    ELSE IF w.show_shimmer
    THEN IF fail = "render" THEN [w EXCEPT !.phase = @ + Lit(10, 100)]
         ELSE Rendered("desert", [w EXCEPT !.phase = @ + Lit(10, 100)])
    ELSE w

\* OceanMirageWindow._tick: _recompute, _render, _dirty = False.
OceanTick(w, fail) ==
    IF w.dirty
    THEN IF fail = "recompute" THEN Caught(w, w)
         ELSE IF fail = "render" THEN Caught(w, Retrace("ocean", w))
         ELSE Cleared(Rendered("ocean", Retrace("ocean", w)))
    ELSE w

\* ------------------------------------------------------------------------
\* State
\* ------------------------------------------------------------------------

VARIABLES
    variant,   \* which program runs: the desert or the ocean integrator
    pc,        \* position of a direct call: "idle", "loop", "done", "raised"
    atm,       \* the atmosphere object passed to the call
    domain,    \* the DomainBounds object passed to the call
    args,      \* the scalar arguments of the call
    loc,       \* the locals of trace_ray
    result,    \* the RayResult returned
    trail,     \* history: the state after each integration, before the clamp
    fpc,       \* position of a fan generator call: "idle", "loop", "done"
    scene,     \* the scene arguments of the fan generator
    fi,        \* the loop index of the fan generator
    rays,      \* the list the fan generator builds and returns
    fcalls,    \* history: the arguments of each trace_ray call of the fan
    last,      \* history: the previous completed call, None before it
    probe,     \* the latest call of a function of the atmosphere, with its value
    ui         \* the window: its parameters, dirty flag, cached rays, phase

vars == <<variant, pc, atm, domain, args, loc, result, trail,
          fpc, scene, fi, rays, fcalls, last, probe, ui>>

callVars == <<pc, args, loc, result, trail>>

fanVars == <<fpc, scene, fi, rays, fcalls>>

auxVars == <<probe, ui>>

Init ==
    /\ variant \in Variants
    /\ pc = "idle"
    /\ atm = None
    /\ domain = None
    /\ args = None
    /\ loc = None
    /\ result = None
    /\ trail = <<>>
    /\ fpc = "idle"
    /\ scene = None
    /\ fi = 0
    /\ rays = <<>>
    /\ fcalls = <<>>
    /\ last = None
    /\ probe = None
    /\ ui = None

Idle == pc = "idle" /\ fpc = "idle"

\* Mutant: the points list outlives the call (a list shared between calls),
\* so that a later call starts from the points of the one before.
StaleLocals(a) ==
    IF loc = None
    THEN InitLocals(variant, a)
    ELSE [InitLocals(variant, a) EXCEPT !.points = loc.points \o @]

\* The locals of a call are created by the call: state, points, the
\* classification accumulators, s.
FreshLocals(a) == InitLocals(variant, a)

\* A caller invokes trace_ray: the lines up to the loop header.
Enter(at, dom, a) ==
    /\ Idle
    /\ atm' = at
    /\ domain' = dom
    /\ args' = a
    /\ loc' = FreshLocals(a)
    /\ pc' = "loop"
    /\ trail' = <<>>
    /\ UNCHANGED <<variant, result, last>>
    /\ UNCHANGED fanVars
    /\ UNCHANGED auxVars

CallTraceRay ==
    \E at \in AtmsOf(variant), dom \in DomainsOf(variant),
       la \in LaunchesOf(variant), ms \in 0..MaxSteps, re \in 1..MaxRecordEvery :
        Enter(at, dom, CallArgs(la, ms, re))

\* One iteration of the for loop of trace_ray.
LoopIter ==
    /\ pc = "loop"
    /\ LoopRuns(loc, args)
    /\ loc' = LoopBody(variant, loc, atm, args, domain)
    /\ trail' = Append(trail, Integrate(variant, loc, atm, args))
    /\ pc' = IF loc'.exc = "none" THEN "loop" ELSE "raised"
    /\ UNCHANGED <<variant, atm, domain, args, result, last>>
    /\ UNCHANGED fanVars
    /\ UNCHANGED auxVars

\* The return statement of trace_ray.
Return ==
    /\ pc = "loop"
    /\ ~LoopRuns(loc, args)
    /\ result' = RayResult(variant, loc)
    /\ pc' = "done"
    /\ UNCHANGED <<variant, atm, domain, args, loc, trail, last>>
    /\ UNCHANGED fanVars
    /\ UNCHANGED auxVars

\* A caller invokes a fan generator: the lines up to its loop header.
EnterFan(at, sc) ==
    /\ Idle
    /\ atm' = at
    /\ domain' = FanDomain(variant, sc)
    /\ scene' = sc
    /\ fi' = 0
    /\ rays' = <<>>
    /\ fcalls' = <<>>
    /\ fpc' = "loop"
    /\ UNCHANGED <<variant, last>>
    /\ UNCHANGED callVars
    /\ UNCHANGED auxVars

CallFan ==
    \E at \in FanAtmsOf(variant), sc \in ScenesOf(variant) : EnterFan(at, sc)

\* One iteration of the fan generator's loop: a launch is set up, traced by
\* trace_ray and its result appended.
FanIter ==
    /\ fpc = "loop"
    /\ FanRuns(fi, scene)
    /\ rays' = FanAppend(rays,
                         trace_ray(variant, atm, FanArgs(variant, scene, fi),
                                   domain))
    /\ fcalls' = Append(fcalls, FanArgs(variant, scene, fi))
    /\ fi' = fi + 1
    /\ UNCHANGED <<variant, atm, domain, scene, fpc, last>>
    /\ UNCHANGED callVars
    /\ UNCHANGED auxVars

\* return rays
FanReturn ==
    /\ fpc = "loop"
    /\ ~FanRuns(fi, scene)
    /\ fpc' = "done"
    /\ UNCHANGED <<variant, atm, domain, scene, fi, rays, fcalls, last>>
    /\ UNCHANGED callVars
    /\ UNCHANGED auxVars

Next == CallTraceRay \/ LoopIter \/ Return \/ CallFan \/ FanIter \/ FanReturn

Spec == Init /\ [][Next]_vars

\* A caller evaluates n(y) and dn_dy(y) of an atmosphere.
EvalIndex ==
    /\ Idle
    /\ \E at \in ProbeAtmsOf(variant), y \in ProbeHeights :
        probe' = [fn |-> "n", atm |-> at, y |-> y,
                  n |-> AtmN(variant, at, y),
                  dn_dy |-> AtmDnDy(variant, at, y)]
    /\ UNCHANGED <<variant, atm, domain, last, ui>>
    /\ UNCHANGED callVars
    /\ UNCHANGED fanVars

\* A caller (the ocean renderer) asks an atmosphere for its duct height.
EvalDuctHeight ==
    /\ Idle
    /\ variant = "ocean"
    /\ \E at \in DuctAtms :
        probe' = [fn |-> "duct_height", atm |-> at, out |-> duct_height(at)]
    /\ UNCHANGED <<variant, atm, domain, last, ui>>
    /\ UNCHANGED callVars
    /\ UNCHANGED fanVars

NextPhysics == EvalIndex \/ EvalDuctHeight

SpecPhysics == Init /\ [][NextPhysics]_vars

\* What a caller keeps of a completed call.
Snapshot ==
    [atm |-> atm, domain |-> domain, args |-> args, scene |-> scene,
     result |-> result, rays |-> rays,
     ended |-> IF loc = None THEN "none" ELSE loc.ended,
     steps |-> IF loc = None THEN 0 ELSE loc.step_i,
     state |-> IF loc = None THEN <<>> ELSE loc.state]

\* A caller that holds the result of a trace_ray call invokes trace_ray a
\* second time for the same ray in the same atmosphere, with a domain and a
\* step budget of its choice.
CallAgain ==
    /\ pc = "done"
    /\ last = None
    /\ \E dom \in DomainsOf(variant), ms \in 0..MaxSteps :
        /\ domain' = dom
        /\ args' = [args EXCEPT !.max_steps = ms]
        /\ loc' = FreshLocals(args')
    /\ last' = Snapshot
    /\ pc' = "loop"
    /\ trail' = <<>>
    /\ UNCHANGED <<variant, atm, result>>
    /\ UNCHANGED fanVars
    /\ UNCHANGED auxVars

\* A caller that holds the list of a fan generator call invokes the generator
\* a second time with the same arguments.
FanAgain ==
    /\ fpc = "done"
    /\ last = None
    /\ last' = Snapshot
    /\ fi' = 0
    /\ rays' = <<>>
    /\ fcalls' = <<>>
    /\ fpc' = "loop"
    /\ UNCHANGED <<variant, atm, domain, scene>>
    /\ UNCHANGED callVars
    /\ UNCHANGED auxVars

NextRepeat ==
    \/ CallTraceRay \/ LoopIter \/ Return \/ CallAgain
    \/ CallFan \/ FanIter \/ FanReturn \/ FanAgain

SpecRepeat == Init /\ [][NextRepeat]_vars

\* A caller invokes trace_ray with any step budget and any decimation factor
\* from 0 on.
CallDegenerate ==
    \E at \in AtmsOf(variant), dom \in DomainsOf(variant),
       la \in LaunchesOf(variant), ms \in 0..MaxSteps, re \in 0..MaxRecordEvery :
        Enter(at, dom, CallArgs(la, ms, re))

NextDegenerate == CallDegenerate \/ LoopIter \/ Return

SpecDegenerate == Init /\ [][NextDegenerate]_vars

\* A caller that holds the result of a trace_ray call invokes trace_ray a
\* second time with the same arguments but for the decimation factor.
CallAgainDecimated ==
    /\ pc = "done"
    /\ last = None
    /\ \E re \in 1..MaxRecordEvery :
        /\ re # args.record_every
        /\ args' = [args EXCEPT !.record_every = re]
        /\ loc' = FreshLocals(args')
    /\ last' = Snapshot
    /\ pc' = "loop"
    /\ trail' = <<>>
    /\ UNCHANGED <<variant, atm, domain, result>>
    /\ UNCHANGED fanVars
    /\ UNCHANGED auxVars

NextDecimation == CallTraceRay \/ LoopIter \/ Return \/ CallAgainDecimated

SpecDecimation == Init /\ [][NextDecimation]_vars

\* The record r with its phase field set to p.
WithPhase(r, p) ==
    [f \in (DOMAIN r) \cup {"phase"} |-> IF f = "phase" THEN p ELSE r[f]]

\* Values of the shimmer phase: the window advances it by 0.10 per tick.
Phases == {0, Lit(10, 100), Lit(25, 10)}

\* A caller invokes the desert trace_ray with a phase.
CallPhase ==
    /\ variant = "desert"
    /\ ui = None
    /\ \E at \in DesertAtms, dom \in DesertDomains, la \in DesertLaunches,
          ms \in 0..MaxSteps, p \in Phases :
        Enter(at, dom, WithPhase(CallArgs(la, ms, 1), p))

\* A caller that holds the result of a trace_ray call invokes trace_ray a
\* second time with the same arguments but for the phase.
CallAgainPhase ==
    /\ pc = "done"
    /\ last = None
    /\ \E p \in Phases :
        /\ p # args.phase
        /\ args' = WithPhase(args, p)
        /\ loc' = FreshLocals(args')
    /\ last' = Snapshot
    /\ pc' = "loop"
    /\ trail' = <<>>
    /\ UNCHANGED <<variant, atm, domain, result>>
    /\ UNCHANGED fanVars
    /\ UNCHANGED auxVars

\* A caller invokes trace_display_rays with a phase.
CallFanPhase ==
    /\ variant = "desert"
    /\ ui = None
    /\ \E at \in DesertFanAtms, sc \in DesertScenes, p \in Phases :
        EnterFan(at, WithPhase(sc, p))

\* A caller that holds the list of a trace_display_rays call invokes it a
\* second time with the same arguments but for the phase.
FanAgainPhase ==
    /\ fpc = "done"
    /\ last = None
    /\ \E p \in Phases :
        /\ p # scene.phase
        /\ scene' = WithPhase(scene, p)
    /\ last' = Snapshot
    /\ fi' = 0
    /\ rays' = <<>>
    /\ fcalls' = <<>>
    /\ fpc' = "loop"
    /\ UNCHANGED <<variant, atm, domain>>
    /\ UNCHANGED callVars
    /\ UNCHANGED auxVars

\* The program constructs its window.
OpenWindow ==
    /\ Idle
    /\ ui = None
    /\ probe = None
    /\ last = None
    /\ ui' = Constructed(variant)
    /\ UNCHANGED <<variant, atm, domain, last, probe>>
    /\ UNCHANGED callVars
    /\ UNCHANGED fanVars

\* The window w receives an event that leaves it as w2.
Deliver(w2) ==
    /\ ui # None
    /\ ui.events < MaxEvents
    /\ ui' = Delivered(w2)
    /\ UNCHANGED <<variant, atm, domain, last, probe>>
    /\ UNCHANGED callVars
    /\ UNCHANGED fanVars

\* A slider of the atmosphere section is moved (valueChanged).
MoveAtmSlider ==
    /\ ui # None
    /\ \E sl \in AtmSliders(variant) :
        /\ ui.atm[sl[1]] # sl[2]
        /\ Deliver(SetAtm(ui, sl[1], sl[2]))

\* A temperature slider of the desert window is moved.
MoveTempSlider ==
    /\ ui # None
    /\ variant = "desert"
    /\ \E sl \in TempSliders :
        /\ ui.atm[sl[1]] # sl[2]
        /\ Deliver(SetTemp(ui, sl[1], sl[2]))

\* A slider of the scene section or the ray count slider is moved.
MoveSceneSlider ==
    /\ ui # None
    /\ \E sl \in SceneSliders(variant) :
        /\ ui[sl[1]] # sl[2]
        /\ Deliver(SetSceneField(ui, sl[1], sl[2]))

\* The "Show Rays" check box is toggled.
ToggleShowRays ==
    /\ ui # None
    /\ Deliver(SetShowRays(ui, ~ui.show_rays))

\* The "Enable Heat Shimmer" check box of the desert window is toggled.
ToggleShimmer ==
    /\ ui # None
    /\ variant = "desert"
    /\ Deliver(SetShimmer(ui, ~ui.show_shimmer))

\* The "Enable Ducting" check box of the ocean window is toggled.
ToggleDucting ==
    /\ ui # None
    /\ variant = "ocean"
    /\ Deliver(SetDucting(ui, ~ui.show_ducting))

\* The timer fires.
Tick ==
    /\ ui # None
    /\ \E fail \in Failures :
        Deliver(IF variant = "desert" THEN DesertTick(ui, fail)
                                      ELSE OceanTick(ui, fail))

NextWindow ==
    \/ OpenWindow \/ MoveAtmSlider \/ MoveTempSlider \/ MoveSceneSlider
    \/ ToggleShowRays \/ ToggleShimmer \/ ToggleDucting \/ Tick

SpecWindow == Init /\ [][NextWindow]_vars

NextPhase ==
    \/ CallPhase \/ LoopIter \/ Return \/ CallAgainPhase
    \/ CallFanPhase \/ FanIter \/ FanReturn \/ FanAgainPhase
    \/ NextWindow

SpecPhase == Init /\ [][NextPhase]_vars

\* The desert atmosphere and the call of the worked example:
\* n_base = 1.000293, delta_n = 2.4e-4, scale_height = 3.0; launch at (0, 1.0)
\* with angle 0, ds = 1.0, max_steps = 2000, the default domain and the
\* default record_every.
ExampleAtm ==
    [n_base |-> Lit(1000293, 1000000), delta_n |-> Lit(24, 100000),
     scale_height |-> 3 * U]

ExampleArgs == CallArgs(Launch(0, U, 0, U), 2000, DesertFanRecordEvery)

CallExample ==
    /\ variant = "desert"
    /\ Enter(ExampleAtm, DesertDefaultDomain, ExampleArgs)

NextExample == CallExample \/ LoopIter \/ Return

SpecExample == Init /\ [][NextExample]_vars

\* Desert calls with a positive step, from heights above and below the
\* ground, in domains whose floor is at or below the ground.
AdaptiveDomains == DesertDomains \cup {Bounds(0, 4 * U, -U, 3 * U)}

AdaptiveLaunches ==
    {la \in DesertLaunches : la.ds > 0}
        \cup {Launch(2 * U, -(U \div 4), (3 * U) \div 10, 2 * U),
              Launch(2 * U, -(U \div 2), -((3 * U) \div 10), U),
              Launch(U, (3 * U) \div 2, -((6 * U) \div 10), U)}

CallAdaptive ==
    /\ variant = "desert"
    /\ \E at \in DesertAtms, dom \in AdaptiveDomains, la \in AdaptiveLaunches,
          ms \in 0..MaxSteps :
           Enter(at, dom, CallArgs(la, ms, 1))

NextAdaptive == CallAdaptive \/ LoopIter \/ Return

SpecAdaptive == Init /\ [][NextAdaptive]_vars

\* Ocean launches close to the horizontal, where the vertical velocity passes
\* through 0 within a step or two.
ShallowLaunches ==
    {Launch(U, y0, QDiv(t * U, 100), ds) :
        y0 \in {U \div 2, U}, t \in (-2)..2, ds \in {U \div 2, U}}

CallShallow ==
    /\ variant = "ocean"
    /\ \E at \in OceanAtms, dom \in OceanDomains, la \in ShallowLaunches,
          ms \in 0..MaxSteps :
           Enter(at, dom, CallArgs(la, ms, 1))

NextOscillation == CallShallow \/ LoopIter \/ Return

SpecOscillation == Init /\ [][NextOscillation]_vars

\* Observer positions of a second call of trace_display_rays_ocean: nearer
\* to the origin than the objects of OceanScenes, and farther than them.
ObserverXs == {0, 50 * U, 500 * U}

ObserverYs == {10 * U, 20 * U}

\* A caller that holds the list of a trace_display_rays_ocean call invokes it
\* a second time with the same arguments but for the observer position.
FanAgainObserver ==
    /\ fpc = "done"
    /\ variant = "ocean"
    /\ last = None
    /\ \E ox \in ObserverXs, oy \in ObserverYs :
        /\ <<ox, oy>> # <<scene.observer_x, scene.observer_y>>
        /\ scene' = [scene EXCEPT !.observer_x = ox, !.observer_y = oy]
    /\ domain' = FanDomain(variant, scene')
    /\ last' = Snapshot
    /\ fi' = 0
    /\ rays' = <<>>
    /\ fcalls' = <<>>
    /\ fpc' = "loop"
    /\ UNCHANGED <<variant, atm>>
    /\ UNCHANGED callVars
    /\ UNCHANGED auxVars

NextObserver == CallFan \/ FanIter \/ FanReturn \/ FanAgainObserver

SpecObserver == Init /\ [][NextObserver]_vars

\* ------------------------------------------------------------------------
\* Claims
\* ------------------------------------------------------------------------

\* The launch point of the call in progress.
LaunchPoint == <<args.x0, args.y0>>

\* Vertical velocity after integration k of the call (k = 0: at the launch).
VyAt(k) == IF k = 0 THEN Sin(args.theta0) ELSE trail[k][4]

\* Height after integration k of the call (k = 0: at the launch).
YAt(k) == IF k = 0 THEN args.y0 ELSE trail[k][2]

\* Integration k of the call ended below the lower bound of the domain.
BelowFloor(k) == trail[k][2] < domain.y_min

\* C1: every call of trace_ray terminates: each loop iteration performs one
\* RK4 step and uses up one of the max_steps iterations that remain, never
\* more than max_steps steps are performed, and a loop that stops is followed
\* by the return of a RayResult.
C1_Terminates ==
    [][pc = "loop" =>
         /\ Len(trail') <= args.max_steps
         /\ Len(trail') = loc'.step_i
         /\ \/ pc' = "done" /\ result' = RayResult(variant, loc) /\ loc' = loc
            \/ /\ pc' = "loop"
               /\ args.max_steps - loc'.step_i < args.max_steps - loc.step_i]_vars

\* A desert call that used its whole budget, ground-clamped on every step.
C1_Witness ==
    /\ pc = "done"
    /\ variant = "desert"
    /\ loc.ended = "running"
    /\ Len(trail) = args.max_steps
    /\ args.max_steps >= 3
    /\ \A k \in 1..Len(trail) : BelowFloor(k)

\* C2: desert: a step that ends below y_min has its height set to
\* y_min + 0.001 and its vertical velocity made non-negative, and the loop is
\* left only on a step with x < x_min, x > x_max or y > y_max, or when
\* max_steps steps have been taken.
C2_GroundClamp ==
    (variant = "desert" /\ pc \in {"loop", "done"} /\ Len(trail) >= 1) =>
        LET k == Len(trail)
            x == loc.state[1]
            y == loc.state[2]
        IN  /\ BelowFloor(k) =>
                /\ y = domain.y_min + Lit(1, 1000)
                /\ loc.state[4] >= 0
                /\ loc.state[4] = Abs(trail[k][4])
                /\ loc.points[Len(loc.points)][2] >= domain.y_min
            /\ (loc.ended # "running") = LeftDomain(x, y, domain)
            /\ (pc = "done") =>
                (loc.ended # "running" \/ loc.step_i = args.max_steps)

\* A desert call that went on after a ground clamp: a clamped step is
\* followed by a further step.
C2_Witness ==
    /\ variant = "desert"
    /\ pc = "loop"
    /\ loc.ended = "running"
    /\ \E k \in 1..(Len(trail) - 1) : BelowFloor(k) /\ trail[k][4] < 0

\* C3: ocean: the first step that ends below y_min ends the trace at once
\* (no step follows it), and the point appended for it is (x, max(y, 0)),
\* whose height is not negative.
C3_SurfaceExit ==
    (variant = "ocean" /\ pc \in {"loop", "done"} /\ Len(trail) >= 1) =>
        LET k == Len(trail)
            p == loc.points[Len(loc.points)]
        IN  /\ \A j \in 1..(k - 1) : ~BelowFloor(j)
            /\ BelowFloor(k) =>
                /\ loc.ended = "surface"
                /\ ~LoopRuns(loc, args)
                /\ p = <<trail[k][1], Max(trail[k][2], 0)>>
                /\ p[2] >= 0

\* An ocean call that returned after a step ended below sea level with steps
\* of its budget left.
C3_Witness ==
    /\ variant = "ocean"
    /\ pc = "done"
    /\ Len(trail) >= 2
    /\ Len(trail) < args.max_steps
    /\ trail[Len(trail)][2] < 0
    /\ loc.ended = "surface"

\* The position after the last completed step as a trace records it: the
\* ocean surface exit records the height max(y, 0).
FinalPosition ==
    IF loc.step_i = 0 THEN LaunchPoint
    ELSE IF loc.ended = "surface"
         THEN SurfacePoint(loc.state[1], loc.state[2])
         ELSE <<loc.state[1], loc.state[2]>>

\* C4: the first element of points is the launch point and the last element
\* is the position after the last completed step, however the trace ends and
\* wherever that step falls in the decimation cycle.
C4_FirstAndLastPoint ==
    pc = "done" =>
        /\ result.points[1] = LaunchPoint
        /\ result.points[Len(result.points)] = FinalPosition

\* C6: ocean: is_trapped is true iff oscillations >= 2 and min_y > 0.5, where
\* min_y and max_y are the least and greatest of the launch height and the
\* heights after every completed step.
C6_Trapped ==
    (variant = "ocean" /\ pc = "done") =>
        LET ys == {YAt(k) : k \in 0..Len(trail)}
        IN  /\ result.is_trapped =
                (result.oscillations >= 2 /\ result.min_y > Lit(5, 10))
            /\ result.min_y \in ys
            /\ \A y \in ys : result.min_y <= y
            /\ result.max_y \in ys
            /\ \A y \in ys : y <= result.max_y

\* An ocean call that returned a trapped ray.
C6_Witness ==
    /\ variant = "ocean"
    /\ pc = "done"
    /\ result.is_trapped
    /\ result.min_y = trail[Len(trail) - 1][2]
    /\ loc.ended # "running"

\* Steps of the call at which the vertical velocity has the opposite sign to
\* that of the step before (the launch for the first step).
SignChanges == {k \in 1..Len(trail) : VyAt(k - 1) * VyAt(k) < 0}

\* C7: desert: has_turning_point is true exactly when some step's vertical
\* velocity has the opposite sign to the previous step's; turning_y is the
\* height the integration reached at the first such step, and 0.0 when there
\* is none.
C7_TurningPoint ==
    (variant = "desert" /\ pc = "done") =>
        /\ result.has_turning_point = (SignChanges # {})
        /\ SignChanges = {} => result.turning_y = 0
        /\ SignChanges # {} =>
            \E k \in SignChanges :
                /\ \A j \in SignChanges : k <= j
                /\ result.turning_y = YAt(k)

\* A desert call with two sign changes at different heights.
C7_Witness ==
    /\ variant = "desert"
    /\ pc = "done"
    /\ \E j, k \in SignChanges : j < k /\ YAt(j) # YAt(k)

\* The second of two trace_ray calls has returned.
SecondDone == pc = "done" /\ last # None

\* The second of two trace_ray calls had the arguments of the first.
SameCall == last.args = args /\ last.domain = domain /\ last.atm = atm

\* C5: the RayResult tells how the trace ended: of two calls that return
\* equal RayResults, either both ran out of max_steps or both left the domain.
C5_TerminationKind ==
    (SecondDone /\ last.result = result) =>
        ((last.ended = "running") = (loc.ended = "running"))

C9_Frame ==
    [][/\ pc = "loop" => atm' = atm /\ domain' = domain
       /\ fpc = "loop" =>
            /\ atm' = atm /\ domain' = domain /\ scene' = scene
            /\ Len(rays') >= Len(rays)
            /\ \A i \in 1..Len(rays) : rays'[i] = rays[i]]_vars

\* A fan whose third ray has been traced after two different earlier ones.
C9_Witness ==
    /\ fpc = "loop"
    /\ Len(rays) = 3
    /\ rays[1] # rays[2]
    /\ rays[2] # rays[3]

\* C10: a fan generator returns exactly n_rays results, trace_ray having
\* been called once per launch, in launch order, and the i-th result is that
\* of tracing the i-th launch on its own.
C10_FanList ==
    fpc = "done" =>
        /\ Len(rays) = scene.n_rays
        /\ Len(fcalls) = scene.n_rays
        /\ \A i \in 1..scene.n_rays :
            /\ fcalls[i] = FanArgs(variant, scene, i - 1)
            /\ rays[i] = trace_ray(variant, atm, fcalls[i], domain)

\* A fan generator returned a list of three different results.
C10_Witness ==
    /\ fpc = "done"
    /\ scene.n_rays = 3
    /\ Len(rays) = 3
    /\ rays[1] # rays[2]
    /\ rays[1] # rays[3]
    /\ rays[2] # rays[3]

\* The latest call of a function of the atmosphere was n / dn_dy.
IndexProbed == probe # None /\ probe.fn = "n"

DuctProbed == probe # None /\ probe.fn = "duct_height"

\* C12: duct_height never raises, returns -1 when ducting is disabled, when
\* a = 0 and when h1 = h2, and returns either -1 or a positive value.
C12_DuctHeight ==
    DuctProbed =>
        /\ probe.out.exc = "none"
        /\ (~probe.atm.ducting_enabled \/ probe.atm.a = 0
                \/ probe.atm.h1 = probe.atm.h2) => probe.out.value = -U
        /\ probe.out.value = -U \/ probe.out.value > 0

\* C13: trace_ray returns a RayResult and never raises, for every step
\* budget max_steps >= 0 and every decimation factor record_every >= 0.
C13_NeverRaises == pc # "raised"

\* p is a subsequence of q, from index i of p and index j of q on.
RECURSIVE SubseqFrom(_, _, _, _)
SubseqFrom(p, q, i, j) ==
    IF i > Len(p) THEN TRUE
    ELSE IF j > Len(q) THEN FALSE
    ELSE IF p[i] = q[j] THEN SubseqFrom(p, q, i + 1, j + 1)
    ELSE SubseqFrom(p, q, i, j + 1)

IsSubseq(p, q) == SubseqFrom(p, q, 1, 1)

\* The fields of a RayResult other than points.
Classification(r) == [f \in (DOMAIN r) \ {"points"} |-> r[f]]

\* The second of two trace_ray calls had the arguments of the first but for
\* record_every.
SameButDecimation ==
    /\ last.atm = atm
    /\ last.domain = domain
    /\ [last.args EXCEPT !.record_every = 1] = [args EXCEPT !.record_every = 1]

\* C14: two traces that differ only in record_every take the same number of
\* steps, end for the same reason in the same final state and return the
\* same classification fields, and the points for record_every = N are a
\* subsequence of the points for record_every = 1.
C14_DecimationIndependent ==
    (SecondDone /\ SameButDecimation) =>
        /\ loc.step_i = last.steps
        /\ loc.ended = last.ended
        /\ loc.state = last.state
        /\ Classification(result) = Classification(last.result)
        /\ args.record_every = 1 => IsSubseq(last.result.points, result.points)
        /\ last.args.record_every = 1 =>
                IsSubseq(result.points, last.result.points)

\* A trace of three steps or more was repeated with record_every = 1 after
\* a trace with a larger factor that recorded fewer points.
C14_Witness ==
    /\ SecondDone
    /\ SameButDecimation
    /\ args.record_every = 1
    /\ last.args.record_every >= 2
    /\ loc.step_i >= 3
    /\ Len(last.result.points) < Len(result.points)

\* C15: the worked desert example ends by leaving the domain through a side
\* or the top, not by using up max_steps.
C15_ExampleExits ==
    (pc = "done" /\ atm = ExampleAtm /\ args = ExampleArgs) =>
        loc.ended \in {"side", "top"}

\* The second of two calls had the arguments of the first but for the phase.
SameButPhase ==
    /\ last.atm = atm
    /\ last.domain = domain
    /\ pc = "done" => WithPhase(last.args, 0) = WithPhase(args, 0)
    /\ fpc = "done" => WithPhase(last.scene, 0) = WithPhase(scene, 0)

\* C16: two calls of the desert trace_ray, or of trace_display_rays, that
\* differ only in the phase return the same RayResult, respectively the same
\* list, and every fan the desert window holds was traced with phase = 0.0.
C16_PhaseUnused ==
    /\ (SecondDone /\ SameButPhase) => result = last.result
    /\ (fpc = "done" /\ last # None /\ SameButPhase) => rays = last.rays
    /\ (ui # None /\ variant = "desert") => ui.cached_rays.phase = 0

\* A desert trace of three points or more was repeated with another phase.
C16_Witness ==
    /\ SecondDone
    /\ SameButPhase
    /\ args.phase # last.args.phase
    /\ Len(result.points) >= 3

\* C17: a timer tick invokes the fan generator only if a callback has written
\* an input of the trace (an atmosphere parameter read by n / dn_dy, the
\* object distance or height, the observer height, the ray count) since the
\* fan generator was last invoked.
C17_RetraceOnlyOnChange == ui # None => ui.justified

\* C18: while no step has ended the trace, the points list holds the launch
\* point and the positions after the steps that are multiples of
\* record_every, and no others: after k such steps it has 1 + k div
\* record_every entries, and the last entry is the current position exactly
\* when k is a positive multiple of record_every.
C18_EveryNthStep ==
    (pc \in {"loop", "done"} /\ loc.ended = "running" /\ loc.step_i >= 1) =>
        /\ Len(loc.points) = 1 + (loc.step_i \div args.record_every)
        /\ loc.step_i % args.record_every = 0 =>
               loc.points[Len(loc.points)] = <<loc.state[1], loc.state[2]>>

\* Steps of the call (0: the launch) at which the vertical velocity is not 0.
NonZeroSteps == {k \in 0..Len(trail) : VyAt(k) # 0}

\* Steps at which the vertical velocity is strictly of the opposite sign to
\* the latest non-zero vertical velocity before it.
Reversals ==
    {k \in NonZeroSteps :
        \E j \in NonZeroSteps :
            /\ j < k
            /\ \A i \in (j + 1)..(k - 1) : VyAt(i) = 0
            /\ VyAt(j) * VyAt(k) < 0}

\* C19: ocean: the oscillation count returned is the number of sign
\* reversals of the vertical velocity along launch, step 1, ..., last step,
\* steps of vertical velocity exactly 0 between the two signs included.
C19_OscillationCount ==
    (variant = "ocean" /\ pc = "done") =>
        result.oscillations = Cardinality(Reversals)

\* The state with which the latest loop iteration began: the launch state,
\* or the state the iteration before left behind.
StateBefore ==
    IF Len(trail) = 1 THEN InitLocals(variant, args).state
    ELSE IF variant = "desert" THEN GroundClamp(trail[Len(trail) - 1], domain)
    ELSE trail[Len(trail) - 1]

\* Magnitude of the velocity the RK4 step of the latest iteration returned,
\* before _renorm.
PreMagnitude ==
    With(LAMBDA b :
           With(LAMBDA st : Hypot(st[3], st[4]),
                rk4_step(variant, 0, b,
                         IF variant = "desert"
                         THEN LocalDs(atm, b[2], args.ds) ELSE args.ds,
                         atm)),
         StateBefore)

\* An iteration of the loop of the call has completed.
IterationDone ==
    /\ pc \in {"loop", "done"}
    /\ Len(trail) >= 1

NextLocalDs == LocalDs(atm, loc.state[2], args.ds)

\* C21: desert, ds > 0: the local step of every iteration lies in
\* [0.12 * ds, ds], is ds at heights of 1.5 * scale_height and more and
\* 0.12 * ds at negative heights, and the arc length accumulated after k
\* steps lies in [0.12 * k * ds, k * ds].
C21_AdaptiveStep ==
    (variant = "desert" /\ pc \in {"loop", "done"} /\ args.ds > 0) =>
        /\ FMul(args.ds, Lit(12, 100)) <= NextLocalDs
        /\ NextLocalDs <= args.ds
        /\ loc.state[2] >= FMul(atm.scale_height, Lit(15, 10)) =>
               NextLocalDs = args.ds
        /\ loc.state[2] < 0 => NextLocalDs = FMul(args.ds, Lit(12, 100))
        /\ loc.step_i * FMul(args.ds, Lit(12, 100)) <= loc.s
        /\ loc.s <= loc.step_i * args.ds

\* A desert call has taken a shortened step and a full one, and is about to
\* step from a negative height.
C21_Witness ==
    /\ variant = "desert"
    /\ pc = "loop"
    /\ args.ds > 0
    /\ loc.step_i >= 2
    /\ loc.state[2] < 0
    /\ loc.s > loc.step_i * FMul(args.ds, Lit(12, 100))
    /\ loc.s < loc.step_i * args.ds

\* The heading from a source at height src_y of the scene to the observer.
AimAngle(src_y) ==
    Atan2(scene.observer_y - src_y, scene.observer_x - scene.obj_x)

\* C22: desert fan: with n_rays = k >= 2 the i-th call of trace_ray
\* (i = 0..k-1) launches from (obj_x, 0.3 + t * (obj_height - 0.3)) with
\* t = i / (k - 1), the first from height 0.3 and the last from obj_height,
\* at heading atan2(observer_y - src_y, observer_x - obj_x) + 0.012 * (t - 0.5);
\* with k = 1 the one call uses t = 0.5: the midpoint height, no spread.
C22_DesertFanLaunches ==
    (variant = "desert" /\ fpc \in {"loop", "done"}) =>
        \A j \in 1..Len(fcalls) :
            /\ fcalls[j].x0 = scene.obj_x
            /\ scene.n_rays >= 2 =>
                LET t == QDiv((j - 1) * U, scene.n_rays - 1)
                IN  /\ fcalls[j].y0 =
                           Lit(3, 10) + FMul(t, scene.obj_height - Lit(3, 10))
                    /\ fcalls[j].theta0 =
                           AimAngle(fcalls[j].y0)
                               + FMul(Lit(12, 1000), t - Lit(5, 10))
                    /\ j = 1 => fcalls[j].y0 = Lit(3, 10)
                    /\ j = scene.n_rays => fcalls[j].y0 = scene.obj_height
            /\ scene.n_rays = 1 =>
                /\ fcalls[j].y0 =
                       Lit(3, 10)
                           + FMul(Lit(5, 10), scene.obj_height - Lit(3, 10))
                /\ fcalls[j].theta0 = AimAngle(fcalls[j].y0)

\* A desert fan of three rays has made its calls, the middle one at a height
\* strictly between the floor 0.3 and the object height.
C22_Witness ==
    /\ variant = "desert"
    /\ fpc = "done"
    /\ scene.n_rays = 3
    /\ Len(fcalls) = 3
    /\ fcalls[1].y0 < fcalls[2].y0
    /\ fcalls[2].y0 < fcalls[3].y0
    /\ fcalls[1].theta0 # AimAngle(fcalls[1].y0)

\* The attributes of the atmosphere objects that n, dn_dy and the integrators
\* never read: the temperatures.
Unread == {"ground_temp", "air_temp", "sea_temp"}

\* A call of a fan generator, reduced to the arguments the trace reads.
TraceInputs(c) ==
    [c EXCEPT !.atm = [f \in (DOMAIN c.atm) \ Unread |-> c.atm[f]]]

\* C23: in both windows, the rays the renderer received at every call are
\* those the fan generator returns for the trace parameters the window had at
\* that call, and whenever the dirty flag is false the cached rays are those
\* of the current trace parameters.
C23_RenderCurrent ==
    ui # None =>
        /\ TraceInputs(ui.drawn.rays) = TraceInputs(ui.drawn.params)
        /\ ~ui.dirty =>
               TraceInputs(ui.cached_rays)
                   = TraceInputs(Recompute(variant, ui))

\* The renderer has been called by a tick, with rays of other trace
\* parameters than those the window was constructed with.
C23_Witness ==
    /\ ui # None
    /\ ui.drawn.count >= 2
    /\ ~ui.dirty
    /\ TraceInputs(ui.drawn.rays)
           # TraceInputs(Recompute(variant, Constructed(variant)))

\* The latest event was a dirty tick in which _recompute or _render raised.
TickFailed == ui # None /\ ui.events >= 1 /\ ui.failed_at = ui.events

\* C24: in both windows, after a dirty tick in which the re-trace or the
\* render raised, the exception having been caught inside the tick, the
\* dirty flag is set, so that the next tick re-traces and renders again.
C24_FailedTickStaysDirty == TickFailed => ui.dirty

\* The vertical velocity with which integration k of a desert call began:
\* that of the launch, or that left by the ground clamp of the step before.
VyInto(k) ==
    IF k = 1 THEN Sin(args.theta0) ELSE GroundClamp(trail[k - 1], domain)[4]

\* Steps of the call in which the integration itself reversed the vertical
\* velocity: it came out with the opposite sign to the one it went in with.
IntegrationTurns == {k \in 1..Len(trail) : VyInto(k) * VyAt(k) < 0}

\* C25: desert: has_turning_point is set only by a sign change of the
\* vertical velocity that the integration produced; a ray whose vertical
\* velocity changed sign only where the ground clamp replaced a negative vy
\* by |vy| is returned with has_turning_point = false.
C25_ClampIsNoTurningPoint ==
    (variant = "desert" /\ pc = "done" /\ IntegrationTurns = {}) =>
        ~result.has_turning_point

C27_FinalYIsLastPoint ==
    pc = "done" => result.final_y = result.points[Len(result.points)][2]

\* The second of two calls of trace_display_rays_ocean had the arguments of
\* the first but for the observer position.
SameButObserver ==
    /\ variant = "ocean"
    /\ fpc = "done"
    /\ last # None
    /\ last.atm = atm
    /\ [last.scene EXCEPT !.observer_x = 0, !.observer_y = 0]
           = [scene EXCEPT !.observer_x = 0, !.observer_y = 0]

\* C28: two calls of trace_display_rays_ocean that differ only in observer_x
\* and / or observer_y return the same list.
C28_ObserverIndependent == SameButObserver => rays = last.rays

\* C28, amended: the list does not depend on observer_y, and depends on
\* observer_x only through max(obj_x, observer_x), which sets x_max of the
\* domain: two calls that differ only in the observer position and agree on
\* max(obj_x, observer_x) return the same list.
C28_ObserverThroughDomain ==
    (SameButObserver
        /\ Max(last.scene.obj_x, last.scene.observer_x)
               = Max(scene.obj_x, scene.observer_x))
        => rays = last.rays

\* A fan of three rays was traced again for an observer at another height
\* and another distance, no farther than the object.
C28_Witness ==
    /\ SameButObserver
    /\ scene.n_rays = 3
    /\ Len(rays) = 3
    /\ scene.observer_x # last.scene.observer_x
    /\ scene.observer_y # last.scene.observer_y
    /\ scene.observer_x <= scene.obj_x
    /\ rays[1] # rays[3]

\* ceil(a / b) for a >= 0, b >= 1.
CeilDiv(a, b) == (a + b - 1) \div b

\* C29: with record_every >= 1 a trace returns between 1 and
\* ceil(max_steps / record_every) + 2 points: 1 when max_steps = 0, 2 or more
\* when max_steps >= 1; the position of the step that ends the trace is
\* appended once: the points are the launch point, the decimated samples of
\* the steps before it, and it.
C29_PointCount ==
    (pc = "done" /\ args.record_every >= 1) =>
        LET n == Len(result.points)
        IN  /\ 1 <= n
            /\ n <= CeilDiv(args.max_steps, args.record_every) + 2
            /\ args.max_steps = 0 => n = 1
            /\ args.max_steps >= 1 => n >= 2
            /\ loc.ended # "running" =>
                   n = 1 + CeilDiv(loc.step_i - 1, args.record_every) + 1
            /\ loc.ended = "running" =>
                   n = 1 + CeilDiv(loc.step_i, args.record_every)

\* A trace with record_every >= 2 ended at a step that the decimation would
\* have recorded as well, after two steps or more.
C29_Witness ==
    /\ pc = "done"
    /\ args.record_every >= 2
    /\ loc.ended # "running"
    /\ loc.step_i >= 3
    /\ (loc.step_i - 1) % args.record_every = 0

\* The point p lies in the rectangle of the domain of the call.
InDomain(p) ==
    /\ domain.x_min <= p[1]
    /\ p[1] <= domain.x_max
    /\ domain.y_min <= p[2]
    /\ p[2] <= domain.y_max

\* Indices of the points appended by decimation: all but the launch point
\* and, once a step has ended the trace, the exit point.
DecimatedIndices ==
    2..(Len(loc.points) - (IF loc.ended = "running" THEN 0 ELSE 1))

\* C30: in both variants every point appended by decimation lies in the
\* rectangle of the domain, and in the desert variant no point after the
\* launch point, the exit point included, has y < y_min.
C30_PointsInDomain ==
    pc \in {"loop", "done"} =>
        /\ \A i \in DecimatedIndices : InDomain(loc.points[i])
        /\ variant = "desert" =>
               \A i \in 2..Len(loc.points) : loc.points[i][2] >= domain.y_min

\* A desert step ended below the floor and its position was recorded by
\* decimation at the height the clamp gave it.
C30_Witness ==
    /\ variant = "desert"
    /\ pc = "loop"
    /\ loc.ended = "running"
    /\ Len(trail) >= 1
    /\ BelowFloor(Len(trail))
    /\ Len(loc.points) >= 3
    /\ loc.points[Len(loc.points)]
           = <<trail[Len(trail)][1], domain.y_min + Lit(1, 1000)>>

====
